---- MODULE Spec2Model ----
(***************************************************************************)
(* Model of programs/analysis/describe.py: the construction of a Describe *)
(* object over a pandas DataFrame.  Construction selects the numeric      *)
(* columns other than "Hogwarts House" and then runs thirteen stages,     *)
(* each a loop over the selected columns that writes one key of every     *)
(* column's record.  An exception raised by a stage leaves __init__.      *)
(*                                                                         *)
(* Numbers.  A real number x is held as the integer x * One, i.e. in      *)
(* steps of 10^-Digits / SubSteps: the entries of the table carry more    *)
(* decimals than round(x, 6) keeps, so rounding is not the identity.      *)
(* A number of the program is a record [t, v]: t = "num" with the value   *)
(* v, t = "nan", t = "inf", t = "fin" (a finite float whose magnitude is  *)
(* not represented: the fourth moment does not fit TLC's integers), or    *)
(* t = "str" for an entry of a non-numeric column.                        *)
(***************************************************************************)
EXTENDS Integers, Sequences, FiniteSets, TLC

VARIABLES data, stats, pc, raised

vars == <<data, stats, pc, raised>>

(* ------------------------------ bounds -------------------------------- *)

\* rows of the tables with several columns
MaxRows == 2

\* rows of the tables with one measured column
MaxColumnRows == 5

\* steps of the number representation per unit of the sixth decimal
SubSteps == 4

(* ------------------------- program constants -------------------------- *)

\* round(x, 6)
Digits == 6

Label == "Hogwarts House"

Grid == 10 ^ Digits

\* the real number 1.0 in steps
One == Grid * SubSteps

(* ------------------------------ numbers ------------------------------- *)

Num(x) == [t |-> "num", v |-> x]

NaN == [t |-> "nan", v |-> 0]

Inf == [t |-> "inf", v |-> 0]

Fin == [t |-> "fin", v |-> 0]

Str == [t |-> "str", v |-> 0]

\* the result of one column's body of a stage: a value or an exception
Val(x) == [exc |-> "", val |-> x]

Raise(e) == [exc |-> e, val |-> NaN]

\* num / den (den > 0, num >= 0) rounded to the nearest integer, ties to even
RoundHalfEven(num, den) ==
    LET q == num \div den
        r == num % den
    IN  IF 2 * r < den THEN q
        ELSE IF 2 * r > den THEN q + 1
        ELSE IF q % 2 = 0 THEN q ELSE q + 1

\* round(num / den, 6), in steps
Round6(num, den) == SubSteps * RoundHalfEven(num, den * SubSteps)

RECURSIVE IsqrtBetween(_, _, _)
\* the r with lo <= r < hi and r * r <= n < (r + 1) * (r + 1)
IsqrtBetween(n, lo, hi) ==
    IF hi - lo <= 1 THEN lo
    ELSE LET mid == (lo + hi) \div 2
         IN  IF mid * mid <= n THEN IsqrtBetween(n, mid, hi)
             ELSE IsqrtBetween(n, lo, mid)

\* sqrt(n) rounded to the nearest integer
RoundSqrt(n) ==
    LET r == IsqrtBetween(n, 0, 46341)
    IN  IF n - r * r > r THEN r + 1 ELSE r

(* --------------------------- column helpers --------------------------- *)

\* Series.dropna(): the present entries, in row order, as plain values
RECURSIVE DropNa(_)
DropNa(col) ==
    IF col = <<>> THEN <<>>
    ELSE IF Head(col).t = "nan" THEN DropNa(Tail(col))
    ELSE <<Head(col).v>> \o DropNa(Tail(col))

RECURSIVE Insert(_, _)
Insert(x, s) ==
    IF s = <<>> THEN <<x>>
    ELSE IF x <= Head(s) THEN <<x>> \o s
    ELSE <<Head(s)>> \o Insert(x, Tail(s))

\* Series.sort_values().reset_index(drop=True)
RECURSIVE SortValues(_)
SortValues(s) ==
    IF s = <<>> THEN <<>> ELSE Insert(Head(s), SortValues(Tail(s)))

RECURSIVE Sum(_)
Sum(s) == IF s = <<>> THEN 0 ELSE Head(s) + Sum(Tail(s))

RECURSIVE SumSq(_)
SumSq(s) == IF s = <<>> THEN 0 ELSE Head(s) * Head(s) + SumSq(Tail(s))

HasStr(col) == \E i \in 1..Len(col) : col[i].t = "str"

(* ------------------- column selection (lines 32-35) ------------------- *)

\* data.select_dtypes(include=[np.number]).columns
NumericCols(d) == SelectSeq(d.columns, LAMBDA c : d.dtype[c] = "number")

\* the comprehension without its filter
QualifiesAny(c) == TRUE

\* the filter of the dict comprehension
Qualifies(c) == c # Label

\* self.stats = {col: {} for col in numeric_cols if col != "Hogwarts House"}
NewStats(d) ==
    LET sel == SelectSeq(NumericCols(d), Qualifies)
    IN  [i \in 1..Len(sel) |-> [col |-> sel[i], rec |-> <<>>]]

(* ----------------- the stages, for one column's record ---------------- *)

\* get_count without dropna(): the number of rows
GetCountColRows(rec, col) == Val(Num(Len(col)))

\* get_count: self.data[col].dropna().shape[0]
GetCountCol(rec, col) == Val(Num(Len(DropNa(col))))

\* get_missing_values
GetMissingCol(rec, col) ==
    IF "count" \notin DOMAIN rec THEN Raise("KeyError")
    ELSE IF Len(col) = 0 THEN Raise("ZeroDivisionError")
    ELSE LET count == Len(col)
             missing_values == count - rec["count"].v
         IN  Val(Num(SubSteps *
                     RoundHalfEven(missing_values * 100 * Grid, count)))

\* get_mean: sum(data_col) / count; the sum of no entry is the int 0, and
\* 0 / 0 raises
GetMeanCol(rec, col) ==
    IF HasStr(col) THEN Raise("TypeError")
    ELSE IF "count" \notin DOMAIN rec THEN Raise("KeyError")
    ELSE IF rec["count"].v = 0 THEN Raise("ZeroDivisionError")
    ELSE Val(Num(Round6(Sum(DropNa(col)), rec["count"].v)))

\* get_var: the entries of a Series iterate as Python floats, so the sum of
\* squared deviations is a Python float and its division by count - 1 = 0
\* raises.  sum((x - S/n)^2) / (n - 1) = (n * sum(x^2) - S^2) / (n * (n - 1))
GetVarCol(rec, col) ==
    IF HasStr(col) THEN Raise("TypeError")
    ELSE IF "count" \notin DOMAIN rec THEN Raise("KeyError")
    ELSE LET n == rec["count"].v
             xs == DropNa(col)
         IN  IF n <= 1 THEN Raise("ZeroDivisionError")
             ELSE Val(Num(Round6(n * SumSq(xs) - Sum(xs) * Sum(xs),
                                 n * (n - 1) * One)))

\* get_std: np.sqrt(variance).round(6), from the rounded variance
GetStdCol(rec, col) ==
    IF "var" \notin DOMAIN rec THEN Raise("KeyError")
    ELSE Val(Num(SubSteps * RoundSqrt((rec["var"].v \div SubSteps) * Grid)))

RECURSIVE MinScan(_, _, _)
\* the loop of get_min from row i on: a comparison with nan is False
MinScan(col, i, cur) ==
    IF i > Len(col) THEN cur
    ELSE IF col[i].t = "num" /\ cur.t = "num" /\ col[i].v < cur.v
         THEN MinScan(col, i + 1, Num(Round6(col[i].v, 1)))
         ELSE MinScan(col, i + 1, cur)

\* get_min: seeded with self.data[col][0], whatever that entry is
GetMinCol(rec, col) ==
    IF Len(col) = 0 THEN Raise("KeyError")
    ELSE IF HasStr(col) THEN Raise("TypeError")
    ELSE Val(MinScan(col, 1, col[1]))

RECURSIVE MaxScan(_, _, _)
MaxScan(col, i, cur) ==
    IF i > Len(col) THEN cur
    ELSE IF col[i].t = "num" /\ cur.t = "num" /\ col[i].v > cur.v
         THEN MaxScan(col, i + 1, Num(Round6(col[i].v, 1)))
         ELSE MaxScan(col, i + 1, cur)

\* get_max
GetMaxCol(rec, col) ==
    IF Len(col) = 0 THEN Raise("KeyError")
    ELSE IF HasStr(col) THEN Raise("TypeError")
    ELSE Val(MaxScan(col, 1, col[1]))

\* the percentile without interpolation: the value at the lower index
QuartileLower(rec, col, quarters) ==
    IF "count" \notin DOMAIN rec THEN Raise("KeyError")
    ELSE LET data_col == SortValues(DropNa(col))
             value4 == (rec["count"].v - 1) * quarters
         IN  IF value4 < 0 \/ value4 \div 4 + 1 > Len(data_col)
             THEN Raise("KeyError")
             ELSE Val(Num(Round6(data_col[value4 \div 4 + 1], 1)))

\* the body shared by get_25, get_50 and get_75, for p = quarters / 4:
\* value = (count - 1) * p is held as value4 = 4 * value
Quartile(rec, col, quarters) ==
    IF "count" \notin DOMAIN rec THEN Raise("KeyError")
    ELSE LET data_col == SortValues(DropNa(col))
             value4 == (rec["count"].v - 1) * quarters
         IN  IF value4 < 0 THEN Raise("KeyError")
             ELSE IF value4 % 4 = 0
             THEN IF value4 \div 4 + 1 > Len(data_col) THEN Raise("KeyError")
                  ELSE Val(Num(Round6(data_col[value4 \div 4 + 1], 1)))
             ELSE LET lower_value == value4 \div 4
                      upper_value == lower_value + 1
                      interpolation4 == value4 % 4
                  IN  IF upper_value + 1 > Len(data_col)
                      THEN Raise("KeyError")
                      ELSE Val(Num(Round6(
                             data_col[lower_value + 1] * (4 - interpolation4)
                             + data_col[upper_value + 1] * interpolation4,
                             4)))

Get25Col(rec, col) == Quartile(rec, col, 1)

Get50Col(rec, col) == Quartile(rec, col, 2)

Get75Col(rec, col) == Quartile(rec, col, 3)

\* get_iqr: the difference of the stored quartiles, not rounded again
GetIqrCol(rec, col) ==
    IF {"75%", "25%"} \subseteq DOMAIN rec
    THEN Val(Num(rec["75%"].v - rec["25%"].v))
    ELSE Raise("KeyError")

RECURSIVE ModeScan(_, _, _, _, _)
\* the loop of get_mode at (1-based) position i: a run is compared with
\* max_count only when a different value ends it
ModeScan(data_col, i, count, max_count, mode) ==
    IF i > Len(data_col) THEN mode
    ELSE IF data_col[i] = data_col[i - 1]
         THEN ModeScan(data_col, i + 1, count + 1, max_count, mode)
         ELSE IF count > max_count
              THEN ModeScan(data_col, i + 1, 0, count, data_col[i - 1])
              ELSE ModeScan(data_col, i + 1, 0, max_count, mode)

\* get_mode
GetModeCol(rec, col) ==
    LET data_col == SortValues(DropNa(col))
    IN  IF data_col = <<>> THEN Raise("KeyError")
        ELSE Val(Num(ModeScan(data_col, 2, 0, 0, data_col[1])))

\* get_kurtosis: std is a numpy float, so a division by std = 0 gives inf
\* (or nan for 0 / 0) and the sum is nan as soon as one term is
GetKurtosisCol(rec, col) ==
    IF HasStr(col) THEN Raise("TypeError")
    ELSE IF ~({"mean", "std", "count"} \subseteq DOMAIN rec)
    THEN Raise("KeyError")
    ELSE LET xs == DropNa(col)
             mean == rec["mean"].v
             std == rec["std"].v
         IN  IF rec["count"].v = 0 THEN Raise("ZeroDivisionError")
             ELSE IF std # 0 THEN Val(Fin)
             ELSE IF \E i \in 1..Len(xs) : xs[i] = mean THEN Val(NaN)
             ELSE Val(Inf)

(* --------------------- the constructor (lines 25-48) ------------------ *)

\* the calls with get_iqr moved before get_75
InitOrderIqrEarly ==
    << "get_count", "get_missing_values", "get_mean", "get_var", "get_std",
       "get_min", "get_25", "get_50", "get_iqr", "get_75", "get_max",
       "get_mode", "get_kurtosis" >>

\* the calls of __init__, in the order of lines 36-48
InitOrder ==
    << "get_count", "get_missing_values", "get_mean", "get_var", "get_std",
       "get_min", "get_25", "get_50", "get_75", "get_iqr", "get_max",
       "get_mode", "get_kurtosis" >>

\* the key of the record a stage writes
StatKey(stage) ==
    CASE stage = "get_count" -> "count"
      [] stage = "get_missing_values" -> "missing(%)"
      [] stage = "get_mean" -> "mean"
      [] stage = "get_var" -> "var"
      [] stage = "get_std" -> "std"
      [] stage = "get_min" -> "min"
      [] stage = "get_25" -> "25%"
      [] stage = "get_50" -> "50%"
      [] stage = "get_75" -> "75%"
      [] stage = "get_iqr" -> "iqr"
      [] stage = "get_max" -> "max"
      [] stage = "get_mode" -> "mode"
      [] stage = "get_kurtosis" -> "kurtosis"

\* the body of a stage's loop for one column
ColResult(stage, rec, col) ==
    CASE stage = "get_count" -> GetCountCol(rec, col)
      [] stage = "get_missing_values" -> GetMissingCol(rec, col)
      [] stage = "get_mean" -> GetMeanCol(rec, col)
      [] stage = "get_var" -> GetVarCol(rec, col)
      [] stage = "get_std" -> GetStdCol(rec, col)
      [] stage = "get_min" -> GetMinCol(rec, col)
      [] stage = "get_25" -> Get25Col(rec, col)
      [] stage = "get_50" -> Get50Col(rec, col)
      [] stage = "get_75" -> Get75Col(rec, col)
      [] stage = "get_iqr" -> GetIqrCol(rec, col)
      [] stage = "get_max" -> GetMaxCol(rec, col)
      [] stage = "get_mode" -> GetModeCol(rec, col)
      [] stage = "get_kurtosis" -> GetKurtosisCol(rec, col)

\* pc = 0: __init__ entered; pc = i: about to call InitOrder[i] (or, with
\* raised set, the call that raised); pc = Done: __init__ returned
Done == Len(InitOrder) + 1

\* `for col in self.stats:` of a stage: the columns are handled in the
\* order of the dict, and the first exception leaves the loop and __init__
RunStage(stage) ==
    LET res == [i \in 1..Len(stats) |->
                   ColResult(stage, stats[i].rec, data.col[stats[i].col])]
        bad == {i \in 1..Len(stats) : res[i].exc # ""}
        stop == IF bad = {} THEN Len(stats) + 1
                ELSE CHOOSE i \in bad : \A j \in bad : i <= j
    IN  /\ stats' = [i \in 1..Len(stats) |->
                       IF i < stop
                       THEN [stats[i] EXCEPT
                               !.rec = (StatKey(stage) :> res[i].val) @@ @]
                       ELSE stats[i]]
        /\ raised' = IF bad = {} THEN "" ELSE res[stop].exc
        /\ pc' = IF bad = {} THEN pc + 1 ELSE pc
        /\ UNCHANGED data

Call(stage) ==
    /\ raised = ""
    /\ pc \in 1..Len(InitOrder)
    /\ InitOrder[pc] = stage
    /\ RunStage(stage)

\* lines 32-35
Construct ==
    /\ pc = 0
    /\ stats' = NewStats(data)
    /\ pc' = 1
    /\ UNCHANGED <<data, raised>>

get_count == Call("get_count")

get_missing_values == Call("get_missing_values")

get_mean == Call("get_mean")

get_var == Call("get_var")

get_std == Call("get_std")

get_min == Call("get_min")

get_25 == Call("get_25")

get_50 == Call("get_50")

get_75 == Call("get_75")

get_iqr == Call("get_iqr")

get_max == Call("get_max")

get_mode == Call("get_mode")

get_kurtosis == Call("get_kurtosis")

(* ------------------------------ the tables ---------------------------- *)

Courses == {"Arithmancy", "Astronomy"}

Names == {Label} \cup Courses

\* entries of the measured columns, in steps: off the sixth decimal, and
\* one far enough from the others for the rounded variance not to be 0
WideValues == {3, 6000}

TallValues == {1, 3, 6}

\* every order of the three columns
ColumnOrders ==
    {o \in [1..Cardinality(Names) -> Names] :
        \A i, j \in DOMAIN o : i # j => o[i] # o[j]}

ColumnSet(order) == {order[i] : i \in DOMAIN order}

\* a table of n rows: a column of dtype object holds strings, the label
\* column (when numeric) the same house number in every row
Table(order, dtype, n, entries) ==
    [columns |-> order,
     dtype |-> dtype,
     col |-> [c \in ColumnSet(order) |->
                IF dtype[c] = "object" THEN [i \in 1..n |-> Str]
                ELSE IF c = Label THEN [i \in 1..n |-> Num(One)]
                ELSE entries[c]]]

Entries(values) == {Num(x) : x \in values} \cup {NaN}

\* three columns of any dtype in any order, few rows
WideTables ==
    UNION {{Table(o, t, n, e) :
               o \in ColumnOrders,
               t \in [Names -> {"number", "object"}],
               e \in [Courses -> [1..n -> Entries(WideValues)]]} :
           n \in 1..MaxRows}

TallOrder == <<Label, "Arithmancy">>

\* the label column as text and one measured column, more rows (a table
\* read from a file has a numeric column only if it has a row)
TallTables ==
    UNION {{Table(TallOrder,
                  [c \in ColumnSet(TallOrder) |->
                     IF c = Label THEN "object" ELSE "number"],
                  n, e) :
               e \in [{"Arithmancy"} -> [1..n -> Entries(TallValues)]]} :
           n \in 1..MaxColumnRows}

(* --------------------------- specification ---------------------------- *)

Init ==
    /\ data \in WideTables \cup TallTables
    /\ stats = <<>>
    /\ pc = 0
    /\ raised = ""

Next ==
    \/ Construct
    \/ get_count
    \/ get_missing_values
    \/ get_mean
    \/ get_var
    \/ get_std
    \/ get_min
    \/ get_25
    \/ get_50
    \/ get_75
    \/ get_iqr
    \/ get_max
    \/ get_mode
    \/ get_kurtosis

Spec == Init /\ [][Next]_vars

(* ------------------------ vocabulary of the claims -------------------- *)

AllKeys ==
    {"count", "missing(%)", "mean", "var", "std", "min", "25%", "50%",
     "75%", "iqr", "max", "mode", "kurtosis"}

\* the statistics that need at least one present value
ValueKeys == AllKeys \ {"count", "missing(%)"}

\* construction is over: __init__ returned or an exception left it
Ended == pc = Done \/ raised # ""

StatCols == 1..Len(stats)

RecOf(i) == stats[i].rec

ColumnOf(i) == data.col[stats[i].col]

PresentIdx(col) == {j \in 1..Len(col) : col[j].t = "num"}

MissingIdx(col) == {j \in 1..Len(col) : col[j].t = "nan"}

PresentVals(col) == {col[j].v : j \in PresentIdx(col)}

Occurrences(col, x) == Cardinality({j \in PresentIdx(col) : col[j].v = x})

Smallest(col) == CHOOSE x \in PresentVals(col) : \A y \in PresentVals(col) : x <= y

Largest(col) == CHOOSE x \in PresentVals(col) : \A y \in PresentVals(col) : x >= y

\* the k-th smallest present value (k from 1), counted with repetitions
OrderStat(col, k) ==
    CHOOSE x \in PresentVals(col) :
        /\ Cardinality({j \in PresentIdx(col) : col[j].v < x}) < k
        /\ Cardinality({j \in PresentIdx(col) : col[j].v <= x}) >= k

\* a <= b between two stored numbers, both taken at 6 decimals (the seed of
\* min and max is stored as it is): False as soon as one is not a number
Leq(a, b) ==
    a.t = "num" /\ b.t = "num" /\ Round6(a.v, 1) <= Round6(b.v, 1)

\* a stored number is x, as it is or rounded to 6 decimals
IsValue(a, x) == a.t = "num" /\ a.v \in {x, Round6(x, 1)}

QuartileKey(quarters) ==
    CASE quarters = 1 -> "25%" [] quarters = 2 -> "50%" [] quarters = 3 -> "75%"

\* the keys of the record a stage reads, as the claim C10 lists them
ReadsOf(stage) ==
    CASE stage \in {"get_missing_values", "get_mean", "get_var",
                    "get_25", "get_50", "get_75"} -> {"count"}
      [] stage = "get_std" -> {"var"}
      [] stage = "get_iqr" -> {"25%", "75%"}
      [] stage = "get_kurtosis" -> {"count", "mean", "std"}
      [] OTHER -> {}

(* -------------------------------- claims ------------------------------ *)

\* C1: for every column with at least one present value, wherever its
\* missing entries are, the record satisfies min <= 25% <= 50% <= 75% <= max.
\* Violated: a column whose first entry is missing keeps nan as min and max.
C1_QuartilesOrdered ==
    \A i \in StatCols :
        (/\ PresentIdx(ColumnOf(i)) # {}
         /\ {"min", "25%", "50%", "75%", "max"} \subseteq DOMAIN RecOf(i))
        => /\ Leq(RecOf(i)["min"], RecOf(i)["25%"])
           /\ Leq(RecOf(i)["25%"], RecOf(i)["50%"])
           /\ Leq(RecOf(i)["50%"], RecOf(i)["75%"])
           /\ Leq(RecOf(i)["75%"], RecOf(i)["max"])

\* C2: the stored mode is the present value that occurs most often, the
\* smallest one on a tie, also when the longest run is the last run of the
\* sorted values.  Violated: the last run is never compared.
C2_ModeMostFrequent ==
    \A i \in StatCols :
        "mode" \in DOMAIN RecOf(i)
        => LET col == ColumnOf(i)
               x == RecOf(i)["mode"].v
           IN  /\ x \in PresentVals(col)
               /\ \A y \in PresentVals(col) :
                     \/ Occurrences(col, y) < Occurrences(col, x)
                     \/ Occurrences(col, y) = Occurrences(col, x) /\ x <= y

C4_ExtremesOverPresent ==
    \A i \in StatCols :
        (/\ PresentIdx(ColumnOf(i)) # {}
         /\ {"min", "max"} \subseteq DOMAIN RecOf(i))
        => /\ IsValue(RecOf(i)["min"], Smallest(ColumnOf(i)))
           /\ IsValue(RecOf(i)["max"], Largest(ColumnOf(i)))

\* C5: when construction is over, a column A with two different present
\* values has its complete record although a column B has no present value,
\* and B's record carries an error marker.  Violated: the exception raised
\* for B leaves __init__.
C5_PartialFailure ==
    Ended =>
        \A a, b \in StatCols :
            (/\ Cardinality(PresentVals(ColumnOf(a))) >= 2
             /\ PresentIdx(ColumnOf(b)) = {})
            => /\ DOMAIN RecOf(a) = AllKeys
               /\ \E k \in DOMAIN RecOf(b) :
                      RecOf(b)[k].t = "EmptyColumnError"

\* C6: when construction is over, the record of a column with exactly one
\* present value x has count = 1, mean = min = max = mode = x, and var, std
\* and kurtosis flagged InsufficientSampleError.  Violated: the division by
\* count - 1 = 0 raises and leaves __init__.
C6_SingleValue ==
    Ended =>
        \A i \in StatCols :
            Cardinality(PresentIdx(ColumnOf(i))) = 1
            => LET r == RecOf(i)
                   x == Smallest(ColumnOf(i))
               IN  /\ {"count", "mean", "min", "max", "mode", "var", "std",
                       "kurtosis"} \subseteq DOMAIN r
                   /\ r["count"].v = 1
                   /\ IsValue(r["mean"], x)
                   /\ IsValue(r["min"], x)
                   /\ IsValue(r["max"], x)
                   /\ IsValue(r["mode"], x)
                   /\ \A k \in {"var", "std", "kurtosis"} :
                         r[k].t = "InsufficientSampleError"

\* C7: when construction is over, every statistic that needs a value is an
\* explicit EmptyColumnError in the record of a column whose entries are all
\* missing.  Violated: 0 / 0 in get_mean raises and leaves __init__.
C7_EmptyColumn ==
    Ended =>
        \A i \in StatCols :
            (Len(ColumnOf(i)) >= 1 /\ PresentIdx(ColumnOf(i)) = {})
            => \A k \in ValueKeys :
                  /\ k \in DOMAIN RecOf(i)
                  /\ RecOf(i)[k].t = "EmptyColumnError"

\* C8: the columns of the report are exactly the columns of the table whose
\* dtype is numeric and whose name is not "Hogwarts House", in the table's
\* order; the report is empty when no column qualifies.
C8_ColumnSelection ==
    pc >= 1 =>
        LET tcols == data.columns
            pos(c) == CHOOSE j \in DOMAIN tcols : tcols[j] = c
            ok(c) == data.dtype[c] = "number" /\ c # "Hogwarts House"
        IN  /\ \A i \in StatCols :
                  /\ \E j \in DOMAIN tcols : tcols[j] = stats[i].col
                  /\ ok(stats[i].col)
            /\ \A j \in DOMAIN tcols :
                  ok(tcols[j]) => \E i \in StatCols : stats[i].col = tcols[j]
            /\ \A i, k \in StatCols :
                  i < k => pos(stats[i].col) < pos(stats[k].col)
            /\ (\A j \in DOMAIN tcols : ~ok(tcols[j])) => stats = <<>>

\* the report has two columns, of a table whose label column is numeric and
\* stands before both
C8_Witness ==
    /\ pc >= 1
    /\ Len(stats) = 2
    /\ data.dtype[Label] = "number"
    /\ data.columns[1] = Label

\* C9: count is the number of present entries, count plus the number of
\* missing entries is the number of rows, and missing(%) is
\* round((total - count) / total * 100, 6) for exactly that difference.
C9_CountAndMissing ==
    \A i \in StatCols :
        LET col == ColumnOf(i)
            r == RecOf(i)
        IN  /\ "count" \in DOMAIN r =>
                /\ r["count"].v = Cardinality(PresentIdx(col))
                /\ r["count"].v + Cardinality(MissingIdx(col)) = Len(col)
            /\ "missing(%)" \in DOMAIN r =>
                r["missing(%)"].v =
                    SubSteps * RoundHalfEven(
                        Cardinality(MissingIdx(col)) * 100 * Grid, Len(col))

\* missing(%) is stored for a column with present and missing entries
C9_Witness ==
    \E i \in StatCols :
        /\ "missing(%)" \in DOMAIN RecOf(i)
        /\ PresentIdx(ColumnOf(i)) # {}
        /\ MissingIdx(ColumnOf(i)) # {}

\* C10: every key a stage reads from a column's record was written by an
\* earlier stage (no stage raises KeyError), and when __init__ returns every
\* record holds exactly the 13 keys.
C10_StageOrder ==
    /\ raised # "KeyError"
    /\ pc \in 1..Len(InitOrder) =>
          \A i \in StatCols : ReadsOf(InitOrder[pc]) \subseteq DOMAIN RecOf(i)
    /\ pc = Done => \A i \in StatCols : DOMAIN RecOf(i) = AllKeys

\* __init__ returned with a report of at least one column
C10_Witness == pc = Done /\ stats # <<>>

====
